---- MODULE Spec2Model ----
(***************************************************************************)
(* Statement processing of the AMEX review backend:                       *)
(*   PDFProcessor   (backend/app/services/pdf_processor.py)                *)
(*   ExcelProcessor (backend/app/services/excel_processor.py)              *)
(*   process_statement_task (backend/app/tasks/statement_tasks.py)         *)
(*                                                                         *)
(* Texts are modelled by the facts the code reads off them.  A name is the *)
(* sequence of its whitespace-separated tokens; a page is a record of what *)
(* the regular expressions and length tests of PDFProcessor see in its     *)
(* extracted text; an amount is an integer number of thousandths.          *)
(***************************************************************************)
EXTENDS Integers, Sequences, FiniteSets, TLC

\* ------------------------------------------------------------------ bounds
MaxPages == 4
MaxRecPages == 2
MaxRows == 2
MaxRetryRows == 1
MaxPairRows == 1

\* ------------------------------------------------------------ python dicts
\* A dict is the sequence of its items in insertion order.
DictHas(d, k) == \E i \in 1..Len(d) : d[i].k = k

DictGet(d, k) == d[CHOOSE i \in 1..Len(d) : d[i].k = k].v

DictPut(d, k, v) ==
    IF DictHas(d, k)
    THEN [i \in 1..Len(d) |-> IF d[i].k = k THEN [k |-> k, v |-> v] ELSE d[i]]
    ELSE Append(d, [k |-> k, v |-> v])

DictKeys(d) == [i \in 1..Len(d) |-> d[i].k]

KeySet(d) == {d[i].k : i \in 1..Len(d)}

InSeq(x, s) == \E i \in 1..Len(s) : s[i] = x

\* ------------------------------------------------------------------- names
JOHN_SMITH == <<"JOHN", "SMITH">>
JOHN_Q_SMITH == <<"JOHN", "Q", "SMITH">>
JOHN_X_SMITH == <<"JOHN", "X", "SMITH">>
JOHN_SMITH_JR == <<"JOHN", "SMITH", "JR">>
MARY_JONES == <<"MARY", "JONES">>
SMITH == <<"SMITH">>
PAT_OBRIEN == <<"PAT", "OBRIEN">>
PAT_O_BRIEN == <<"PAT", "O'BRIEN">>
FIELD_2 == <<"J", "BEHRENS", "FIELD", "2">>

\* PDFProcessor.__init__: self.skip_names
skip_names_Empty == {}

skip_names == {FIELD_2}

\* str.upper() on a token
UpperTok(t) ==
    CASE t = "john" -> "JOHN"
      [] t = "mary" -> "MARY"
      [] t = "jones" -> "JONES"
      [] t = "Smith" -> "SMITH"
      [] OTHER -> t

Upper(n) == [i \in 1..Len(n) |-> UpperTok(n[i])]

\* Python's `a in b` on two texts, at token granularity: a occurs in b as a
\* contiguous run of tokens.
SubName(a, b) ==
    \E o \in 0..(Len(b) - Len(a)) : \A i \in 1..Len(a) : b[o + i] = a[i]

\* ------------------------------------------------------------------- pages
\* markers   : cardholder_pattern.findall(text), each stripped
\* len       : len(text.strip())
\* indicator : one of the transaction_indicators other than 'Total for' matches
\* continued : "Activity Continued" in text
\* lines     : number of non-header lines longer than 10 characters
\* digits    : one of those lines holds a digit
\* mentions  : names that occur in the text outside a marker
\* ctx       : "Transaction" or "Amount" occurs in the text (any case)
\* dollar    : a '$' follows the names of this page on their lines
Pg(m, l, ind, cont, ln, dg, men, cx, dl) ==
    [markers |-> m, len |-> l, indicator |-> ind, continued |-> cont, lines |-> ln,
     digits |-> dg, mentions |-> men, ctx |-> cx, dollar |-> dl]

ContentPage == Pg(<<>>, 80, TRUE, FALSE, 5, TRUE, {}, FALSE, TRUE)
EmptyPage == Pg(<<>>, 0, FALSE, FALSE, 0, FALSE, {}, FALSE, FALSE)
ContinuedPage == Pg(<<>>, 80, FALSE, TRUE, 1, FALSE, {}, FALSE, FALSE)
MentionPage(n) == Pg(<<>>, 80, TRUE, FALSE, 5, TRUE, {n}, TRUE, TRUE)
TotalPage(n) == Pg(<<n>>, 80, TRUE, FALSE, 5, TRUE, {}, FALSE, TRUE)
ShortTotalPage(n) == Pg(<<n>>, 20, FALSE, FALSE, 1, FALSE, {}, FALSE, FALSE)
TwoTotalsPage(n, m) == Pg(<<n, m>>, 80, TRUE, FALSE, 5, TRUE, {}, FALSE, TRUE)
ShortAmountPage == Pg(<<>>, 20, TRUE, FALSE, 1, TRUE, {}, FALSE, TRUE)

\* "Total for" in text
HasTotalFor(p) == p.markers # <<>>

\* PDFProcessor._is_blank_or_header_only_page
IsBlankOrHeaderOnlyPage(p) ==
    IF p.len < 50 THEN TRUE
    ELSE IF p.indicator \/ HasTotalFor(p) THEN FALSE
    ELSE IF p.continued /\ p.lines < 3 /\ ~p.digits THEN TRUE
    ELSE FALSE

\* ------------------------------------------ _find_cardholder_sections
\* First pass (lines 119-139) over the first n pages of doc.
RECURSIVE FirstPass(_, _)
FirstPass(doc, n) ==
    IF n = 0
    THEN [totals |-> <<>>, blank |-> <<>>, summary |-> <<>>, first_total_found |-> FALSE]
    ELSE LET r == FirstPass(doc, n - 1)
             p == doc[n]
         IN  IF p.markers # <<>>
             THEN [r EXCEPT !.totals = Append(@, [page |-> n, name |-> p.markers[1]]),
                            !.first_total_found = TRUE]
             ELSE IF IsBlankOrHeaderOnlyPage(p)
             THEN [r EXCEPT !.blank = Append(@, n)]
             ELSE IF ~r.first_total_found
             THEN [r EXCEPT !.summary = Append(@, n)]
             ELSE r

\* Lines 156-164: start page of the first cardholder.
FirstStartPage(doc, blank, summary, end_page) ==
    LET ok(p) == /\ ~InSeq(p, blank)
                 /\ ~InSeq(p, summary)
                 /\ ~HasTotalFor(doc[p])
                 /\ doc[p].len > 50
        cand == {p \in 1..(end_page - 1) : ok(p)}
    IN  IF cand = {} THEN 1 ELSE CHOOSE p \in cand : \A q \in cand : p <= q

\* Line 167: a later cardholder starts after the previous total page.
StartAfterPrevious_SamePage(last_assigned_end) == last_assigned_end

StartAfterPrevious(last_assigned_end) == last_assigned_end + 1

\* Lines 169-181: skip the blank pages that follow the previous total page.
SkipBlankPages_NoSkip(doc, blank, start_page, end_page) ==
    [start |-> start_page, blank |-> blank]

RECURSIVE SkipBlankPages(_, _, _, _)
SkipBlankPages(doc, blank, start_page, end_page) ==
    IF start_page < end_page
    THEN IF InSeq(start_page, blank)
         THEN SkipBlankPages(doc, blank, start_page + 1, end_page)
         ELSE IF IsBlankOrHeaderOnlyPage(doc[start_page])
         THEN SkipBlankPages(doc, Append(blank, start_page), start_page + 1, end_page)
         ELSE [start |-> start_page, blank |-> blank]
    ELSE [start |-> start_page, blank |-> blank]

\* Second pass (lines 145-189) over the first i entries of cardholder_totals.
RECURSIVE SecondPass(_, _, _)
SecondPass(doc, fp, i) ==
    IF i = 0
    THEN [pages |-> <<>>, last_assigned_end |-> 0, blank |-> fp.blank]
    ELSE LET st == SecondPass(doc, fp, i - 1)
             end_page == fp.totals[i].page
             name == fp.totals[i].name
         IN  IF name \in skip_names
             THEN [st EXCEPT !.last_assigned_end = end_page]
             ELSE LET sb == IF i = 1 \/ st.last_assigned_end = 0
                            THEN [start |-> FirstStartPage(doc, st.blank, fp.summary, end_page),
                                  blank |-> st.blank]
                            ELSE SkipBlankPages(doc, st.blank,
                                                StartAfterPrevious(st.last_assigned_end),
                                                end_page)
                  IN  IF sb.start <= end_page
                      THEN [pages |-> DictPut(st.pages, name,
                                              [start |-> sb.start, end |-> end_page]),
                            last_assigned_end |-> end_page,
                            blank |-> sb.blank]
                      ELSE [st EXCEPT !.blank = sb.blank]

\* PDFProcessor._find_cardholder_sections: the returned dict, with the page
\* lists the function keeps beside it.
FindCardholderSections(doc) ==
    LET fp == FirstPass(doc, Len(doc))
        sp == SecondPass(doc, fp, Len(fp.totals))
    IN  [pages |-> sp.pages, totals |-> fp.totals, blank |-> sp.blank,
         summary |-> fp.summary]

\* ------------------------------------------------ split_by_cardholder
\* PDFProcessor._generate_filename: characters outside [\w\s-] are dropped
\* from a token; the closing date is the same for every file of a run.
CleanTok(t) ==
    CASE t = "O'BRIEN" -> "OBRIEN"
      [] OTHER -> t

GenerateFilename(cardholder_name) ==
    [i \in 1..Len(cardholder_name) |-> CleanTok(cardholder_name[i])]

\* Lines 62-68: the pages _is_blank_or_header_only_page calls blank.
BlankPagesSet(doc) == {n \in 1..Len(doc) : IsBlankOrHeaderOnlyPage(doc[n])}

\* Line 79: a page of the range is left out of the slice.
SkipsPage_AlsoLast(blank_pages_set, actual_page_num, page_end) ==
    actual_page_num \in blank_pages_set

SkipsPage(blank_pages_set, actual_page_num, page_end) ==
    actual_page_num \in blank_pages_set /\ actual_page_num # page_end

\* Lines 74-83: the source pages copied into a cardholder's file, in order.
RECURSIVE PagesAdded(_, _, _, _)
PagesAdded(blank_pages_set, from, to, page_end) ==
    IF from > to THEN <<>>
    ELSE IF SkipsPage(blank_pages_set, from, page_end)
         THEN PagesAdded(blank_pages_set, from + 1, to, page_end)
         ELSE <<from>> \o PagesAdded(blank_pages_set, from + 1, to, page_end)

\* Lines 70-102 for the first i items of cardholder_pages: the results dict
\* and the files written so far (a dict from path to the pages of the file).
RECURSIVE SplitLoop(_, _, _)
SplitLoop(doc, cardholder_pages, i) ==
    IF i = 0 THEN [results |-> <<>>, files |-> <<>>]
    ELSE LET st == SplitLoop(doc, cardholder_pages, i - 1)
             name == cardholder_pages[i].k
             rng == cardholder_pages[i].v
         IN  IF name \in skip_names THEN st
             ELSE LET copied == PagesAdded(BlankPagesSet(doc), rng.start, rng.end, rng.end)
                      path == GenerateFilename(name)
                  IN  [results |-> DictPut(st.results, name,
                                    [path |-> path, page_start |-> rng.start,
                                     page_end |-> rng.end, pages_in_pdf |-> Len(copied)]),
                       files |-> DictPut(st.files, path, copied)]

\* ------------------------------------------------------ validate_split
\* Line 320: cardholder_pattern.findall(page_text), every match of the page.
TotalMatches_FirstOnly(p) == IF p.markers = <<>> THEN <<>> ELSE <<p.markers[1]>>

TotalMatches(p) == p.markers

\* Lines 321-330 for the first j matches of slice page page_num.
RECURSIVE MatchWarnings(_, _, _, _)
MatchWarnings(matches, j, page_num, cardholder_name) ==
    IF j = 0 THEN <<>>
    ELSE LET rest == MatchWarnings(matches, j - 1, page_num, cardholder_name)
         IN  IF matches[j] = cardholder_name THEN rest
             ELSE Append(rest, [kind |-> "total", page |-> page_num, name |-> matches[j]])

\* Lines 315-330 for the first n pages of the file (pages: source page numbers).
RECURSIVE PageWarnings(_, _, _, _)
PageWarnings(doc, pages, n, cardholder_name) ==
    IF n = 0 THEN <<>>
    ELSE LET m == TotalMatches(doc[pages[n]])
         IN  PageWarnings(doc, pages, n - 1, cardholder_name)
               \o MatchWarnings(m, Len(m), n, cardholder_name)

\* Line 326: the owner's own total was seen on some page of the file.
CardholderTotalFound(doc, pages, cardholder_name) ==
    \E n \in 1..Len(pages) :
        LET m == TotalMatches(doc[pages[n]])
        IN  \E j \in 1..Len(m) : m[j] = cardholder_name

\* The names written in the text of a page.
NamesInText(p) == {p.markers[j] : j \in 1..Len(p.markers)} \cup p.mentions

\* Line 341: other_cardholder.upper() in full_text.upper()
NameInFullText(doc, pages, other) ==
    \E n \in 1..Len(pages) :
        \E m \in NamesInText(doc[pages[n]]) : SubName(Upper(other), Upper(m))

\* Lines 343-344: re.search("(Transaction|Amount|<other>.*\$)", full_text, re.I)
TransactionContext(doc, pages, other) ==
    \E n \in 1..Len(pages) :
        \/ doc[pages[n]].ctx
        \/ /\ doc[pages[n]].dollar
           /\ \E m \in NamesInText(doc[pages[n]]) : SubName(Upper(other), Upper(m))

\* Line 345: "Total for <other>" is itself an element of the warnings that
\* mention other.  Every warning is a longer sentence around the name, so no
\* element equals it.
TotalForIsAWarning(warnings, other) == FALSE

\* Lines 338-346 for the first i names of all_cardholders.
RECURSIVE OtherNameWarnings(_, _, _, _, _, _)
OtherNameWarnings(doc, pages, all_cardholders, i, cardholder_name, warnings) ==
    IF i = 0 THEN warnings
    ELSE LET w == OtherNameWarnings(doc, pages, all_cardholders, i - 1,
                                    cardholder_name, warnings)
             other == all_cardholders[i]
         IN  IF /\ other # cardholder_name
                /\ NameInFullText(doc, pages, other)
                /\ TransactionContext(doc, pages, other)
                /\ ~TotalForIsAWarning(w, other)
             THEN Append(w, [kind |-> "possible", page |-> 0, name |-> other])
             ELSE w

\* Lines 306-346: the warnings of one cardholder's file.
SliceWarnings(doc, fs, split_results, cardholder_name) ==
    LET pages == DictGet(fs, DictGet(split_results, cardholder_name).path)
        w1 == PageWarnings(doc, pages, Len(pages), cardholder_name)
        w2 == IF CardholderTotalFound(doc, pages, cardholder_name) THEN w1
              ELSE Append(w1, [kind |-> "missing", page |-> 0, name |-> cardholder_name])
        all_cardholders == DictKeys(split_results)
    IN  OtherNameWarnings(doc, pages, all_cardholders, Len(all_cardholders),
                          cardholder_name, w2)

\* PDFProcessor.validate_split over the first i items of split_results.
RECURSIVE ValidateLoop(_, _, _, _)
ValidateLoop(doc, fs, split_results, i) ==
    IF i = 0 THEN <<>>
    ELSE LET vr == ValidateLoop(doc, fs, split_results, i - 1)
             name == split_results[i].k
             warnings == SliceWarnings(doc, fs, split_results, name)
         IN  IF warnings # <<>> THEN DictPut(vr, name, warnings) ELSE vr

\* ------------------------------------------------------ ExcelProcessor
\* A sheet is [product_row, header, rows]: the row whose first cell holds
\* "Product" (0 when no row does), the header labels by column, and the data
\* rows below the header.  A data row is a record of its cells by label.
LastHeaderScanRow == 29

DescLabels ==
    <<"Transaction Description 1", "Transaction Description 2",
      "Transaction Description 3", "Transaction Description 4",
      "Transaction Description 5", "Transaction Description 6",
      "Transaction Description 7", "Transaction Description 8",
      "Transaction Description 9", "Transaction Description 10",
      "Transaction Description 11", "Transaction Description 12",
      "Transaction Description 13", "Transaction Description 14",
      "Transaction Description 15", "Transaction Description 16">>

DescRange == 1..Len(DescLabels)

IsDescLabel(label) == \E k \in DescRange : DescLabels[k] = label

DescIndex(label) == CHOOSE k \in DescRange : DescLabels[k] = label

\* ExcelProcessor._find_header_row: 0 stands for the ValueError.
FindHeaderRow(sheet) ==
    IF sheet.product_row \in 1..LastHeaderScanRow THEN sheet.product_row ELSE 0

\* Lines 42-57: the field the if/elif chain maps a header to.
ChainField(label) ==
    CASE label = "Basic Card Account No" -> "basic_card_account"
      [] label = "Supplemental Cardmember Last Name" -> "supp_last_name"
      [] label = "Supplemental Cardmember First Name" -> "supp_first_name"
      [] label = "Supplemental Account Number" -> "supp_card_number"
      [] label = "Business Process Date" -> "business_process_date"
      [] label = "Transaction Date" -> "transaction_date"
      [] label = "Transaction Amount USD" -> "amount"
      [] label = "Transaction Reference" -> "transaction_reference"
      [] OTHER -> "none"

ChainFields ==
    {"basic_card_account", "supp_last_name", "supp_first_name", "supp_card_number",
     "business_process_date", "transaction_date", "amount", "transaction_reference"}

\* Line 61: f"Transaction Description {i}" in header_str
DescriptionMatches(i, label) ==
    /\ IsDescLabel(label)
    /\ \/ DescIndex(label) = i
       \/ i = 1 /\ DescIndex(label) >= 10

\* Lines 32-62 over the first n columns: column_map (0: the key is absent).
RECURSIVE MapColumnsUpTo(_, _)
MapColumnsUpTo(header, n) ==
    IF n = 0
    THEN [f |-> [x \in ChainFields |-> 0], d |-> [i \in DescRange |-> 0]]
    ELSE LET cm == MapColumnsUpTo(header, n - 1)
             label == header[n]
         IN  [f |-> [x \in ChainFields |-> IF ChainField(label) = x THEN n ELSE cm.f[x]],
              d |-> [i \in DescRange |->
                        IF DescriptionMatches(i, label) THEN n ELSE cm.d[i]]]

\* Lines 75-76: the required columns that are missing.
required_columns_OneDate == {"amount", "transaction_date"}

required_columns == {"amount", "business_process_date", "transaction_date"}

MissingColumns(column_map) == {c \in required_columns : column_map.f[c] = 0}

\* sheet.cell(row, column).value of a data row
CellValue(header, row, col) ==
    LET label == header[col]
    IN  CASE label = "Supplemental Cardmember First Name" -> row.supp_first
          [] label = "Supplemental Cardmember Last Name" -> row.supp_last
          [] label = "Transaction Amount USD" -> row.amount
          [] label = "Basic Cardmember First Name" -> row.basic_first
          [] label = "Basic Cardmember Last Name" -> row.basic_last
          [] IsDescLabel(label) -> row.desc[DescIndex(label)]
          [] OTHER -> ""

\* ExcelProcessor._clean_amount.  A string cell is the sequence of its
\* characters; float() is modelled on digits and one decimal point, to the
\* thousandth.
DigitVal(c) ==
    CASE c = "0" -> 0 [] c = "1" -> 1 [] c = "2" -> 2 [] c = "3" -> 3 [] c = "4" -> 4
      [] c = "5" -> 5 [] c = "6" -> 6 [] c = "7" -> 7 [] c = "8" -> 8 [] c = "9" -> 9

IsDigit(c) == c \in {"0", "1", "2", "3", "4", "5", "6", "7", "8", "9"}

RECURSIVE IntOf(_)
IntOf(ds) ==
    IF ds = <<>> THEN 0
    ELSE 10 * IntOf(SubSeq(ds, 1, Len(ds) - 1)) + DigitVal(ds[Len(ds)])

ParseFloat(s) ==
    LET dots == {i \in 1..Len(s) : s[i] = "."}
        wellformed == /\ \A i \in 1..Len(s) : IsDigit(s[i]) \/ s[i] = "."
                      /\ Cardinality(dots) <= 1
                      /\ \E i \in 1..Len(s) : IsDigit(s[i])
        dot == IF dots = {} THEN Len(s) + 1 ELSE CHOOSE i \in dots : TRUE
        frac == SubSeq(SubSeq(s, dot + 1, Len(s)) \o <<"0", "0", "0">>, 1, 3)
    IN  IF wellformed
        THEN [ok |-> TRUE, v |-> 1000 * IntOf(SubSeq(s, 1, dot - 1)) + IntOf(frac)]
        ELSE [ok |-> FALSE, v |-> 0]

CleanAmount(value) ==
    CASE value.t = "none" -> [ok |-> TRUE, v |-> 0]
      [] value.t = "num" -> [ok |-> TRUE, v |-> value.v]
      [] value.t = "str" ->
           ParseFloat(SelectSeq(value.s, LAMBDA c : c # "," /\ c # "$"))

\* Lines 135-141 for the description keys 1..i of column_map.
RECURSIVE DescParts(_, _, _, _)
DescParts(header, column_map, row, i) ==
    IF i = 0 THEN <<>>
    ELSE LET rest == DescParts(header, column_map, row, i - 1)
         IN  IF column_map.d[i] # 0 /\ CellValue(header, row, column_map.d[i]) # ""
             THEN Append(rest, CellValue(header, row, column_map.d[i]))
             ELSE rest

\* Lines 118-121: the cardholder name fields read from a row.
RowFirstName(header, column_map, row) ==
    IF column_map.f["supp_first_name"] # 0
    THEN CellValue(header, row, column_map.f["supp_first_name"]) ELSE <<>>

RowLastName(header, column_map, row) ==
    IF column_map.f["supp_last_name"] # 0
    THEN CellValue(header, row, column_map.f["supp_last_name"]) ELSE <<>>

\* Lines 103-165 for the first n data rows: the grouping so far, and whether
\* an exception has left the loop.
RECURSIVE ParseRows(_, _, _)
ParseRows(sheet, column_map, n) ==
    IF n = 0 THEN [raised |-> FALSE, tbc |-> <<>>]
    ELSE LET st == ParseRows(sheet, column_map, n - 1)
             row == sheet.rows[n]
             amount_value == IF column_map.f["amount"] # 0
                             THEN CellValue(sheet.header, row, column_map.f["amount"])
                             ELSE [t |-> "none"]
             first_name == Upper(RowFirstName(sheet.header, column_map, row))
             last_name == Upper(RowLastName(sheet.header, column_map, row))
             cardholder_name == first_name \o last_name
             desc_parts == DescParts(sheet.header, column_map, row, Len(DescLabels))
             amount == CleanAmount(amount_value)
             transaction ==
                 [first_name |-> first_name, last_name |-> last_name,
                  amount |-> amount.v,
                  merchant |-> IF desc_parts # <<>> THEN desc_parts[1] ELSE "",
                  description |-> desc_parts,
                  row_number |-> sheet.product_row + n]
         IN  IF st.raised THEN st
             ELSE IF amount_value.t = "none" THEN st
             ELSE IF first_name = <<>> \/ last_name = <<>> THEN st
             ELSE IF ~amount.ok THEN [st EXCEPT !.raised = TRUE]
             ELSE [st EXCEPT !.tbc =
                      DictPut(@, cardholder_name,
                              IF DictHas(@, cardholder_name)
                              THEN Append(DictGet(@, cardholder_name), transaction)
                              ELSE <<transaction>>)]

\* ExcelProcessor.parse_statement
ParseStatement(sheet) ==
    LET header_row == FindHeaderRow(sheet)
        column_map == MapColumnsUpTo(sheet.header, Len(sheet.header))
        rows == ParseRows(sheet, column_map, Len(sheet.rows))
    IN  IF header_row = 0
        THEN [error |-> "Could not find header row", missing |-> {}, tbc |-> <<>>]
        ELSE IF MissingColumns(column_map) # {}
        THEN [error |-> "Missing required columns",
              missing |-> MissingColumns(column_map), tbc |-> <<>>]
        ELSE IF rows.raised
        THEN [error |-> "could not convert string to float", missing |-> {},
              tbc |-> <<>>]
        ELSE [error |-> "", missing |-> {}, tbc |-> rows.tbc]

\* sum(t["amount"] for t in transactions), in thousandths
RECURSIVE SumAmounts(_)
SumAmounts(transactions) ==
    IF transactions = <<>> THEN 0
    ELSE transactions[1].amount + SumAmounts(Tail(transactions))

\* f"{x:.2f}": thousandths rendered to the nearest cent.  (The amounts of the
\* model and their sums never end in 5, where the rendering of the binary
\* value decides.)
Format2f(x) == (x + 5) \div 10

\* Lines 223-236: the APLB rows of the first n transactions.
AplbRows(transactions, n) ==
    [i \in 1..n |->
        [tag |-> "APLB", amount |-> Format2f(transactions[i].amount),
         gl_account |-> "", job |-> "", phase |-> "", cost_type |-> "",
         text |-> <<transactions[i].description, transactions[i].merchant>>]]

\* Lines 193-236: the rows written to one cardholder's file.
CsvRows(transactions) ==
    <<[tag |-> "APHB", amount |-> Format2f(SumAmounts(transactions)),
       gl_account |-> "", job |-> "", phase |-> "", cost_type |-> "",
       text |-> <<>>]>>
      \o AplbRows(transactions, Len(transactions))

\* ExcelProcessor.generate_csv_files over the first i items: file_paths and
\* the files written (the path of a file is the name it is called after).
RECURSIVE GenerateCsvFiles(_, _)
GenerateCsvFiles(tbc, i) ==
    IF i = 0 THEN [file_paths |-> <<>>, files |-> <<>>]
    ELSE LET st == GenerateCsvFiles(tbc, i - 1)
             cardholder_name == tbc[i].k
             transactions == tbc[i].v
         IN  IF transactions = <<>> THEN st
             ELSE [file_paths |-> DictPut(st.file_paths, cardholder_name, cardholder_name),
                   files |-> DictPut(st.files, cardholder_name, CsvRows(transactions))]

\* ---------------------------------------------- process_statement_task
\* Line 128: transactions_by_cardholder.get(cardholder_name, [])
ExactTransactions(tbc, cardholder_name) ==
    IF DictHas(tbc, cardholder_name) THEN DictGet(tbc, cardholder_name) ELSE <<>>

\* Lines 137-139: first and last tokens agree, both names of two tokens or more.
FuzzyMatch_LastOnly(cardholder_parts, excel_parts) ==
    /\ Len(cardholder_parts) >= 2
    /\ Len(excel_parts) >= 2
    /\ cardholder_parts[Len(cardholder_parts)] = excel_parts[Len(excel_parts)]

FuzzyMatch(cardholder_parts, excel_parts) ==
    /\ Len(cardholder_parts) >= 2
    /\ Len(excel_parts) >= 2
    /\ cardholder_parts[1] = excel_parts[1]
    /\ cardholder_parts[Len(cardholder_parts)] = excel_parts[Len(excel_parts)]

\* Lines 133-142: the list of the first key that matches, else the list as it was.
FuzzyTransactions(tbc, cardholder_name, transactions) ==
    LET hits == {i \in 1..Len(tbc) : FuzzyMatch(cardholder_name, tbc[i].k)}
    IN  IF hits = {} THEN transactions
        ELSE tbc[CHOOSE i \in hits : \A j \in hits : i <= j].v

\* Lines 128-142: the transactions attached to a document cardholder.
MatchedTransactions_FuzzyFirst(tbc, cardholder_name) ==
    FuzzyTransactions(tbc, cardholder_name, ExactTransactions(tbc, cardholder_name))

MatchedTransactions(tbc, cardholder_name) ==
    LET transactions == ExactTransactions(tbc, cardholder_name)
    IN  IF transactions = <<>> /\ ~DictHas(tbc, cardholder_name)
        THEN FuzzyTransactions(tbc, cardholder_name, transactions)
        ELSE transactions

\* Line 148: csv_results.get(cardholder_name, "")
CsvPath(csv_res, cardholder_name) ==
    IF DictHas(csv_res, cardholder_name) THEN DictGet(csv_res, cardholder_name) ELSE <<>>

\* Lines 106-179: the CardholderStatement rows of the first i document names.
CardholderStatements(pdf_res, tbc, csv_res, i) ==
    [j \in 1..i |->
        LET cardholder_name == pdf_res[j].k
            pdf_info == pdf_res[j].v
            transactions == MatchedTransactions(tbc, cardholder_name)
        IN  [name |-> cardholder_name,
             pdf_path |-> pdf_info.path,
             csv_path |-> CsvPath(csv_res, cardholder_name),
             page_start |-> pdf_info.page_start,
             page_end |-> pdf_info.page_end,
             total_amount |-> SumAmounts(transactions),
             transaction_count |-> Len(transactions),
             transactions |-> transactions]]

\* ------------------------------------------------------------ the state
\* total_transactions of lines 103 and 179: the transactions of every group.
RECURSIVE TotalTransactions(_, _)
TotalTransactions(created, n) ==
    IF n = 0 THEN 0
    ELSE TotalTransactions(created, n - 1) + created[n].transaction_count

\* Lines 223-227: the dict process_statement_task returns, as its items.
TaskResult(created) ==
    <<[k |-> "status", v |-> "success"],
      [k |-> "cardholders_processed", v |-> Len(created)],
      [k |-> "transactions_created", v |-> TotalTransactions(created, Len(created))]>>

\* open(path, 'wb') / open(path, 'w') for the first n files of a dict of
\* files, in a directory that os.makedirs(output_dir, exist_ok=True) left as
\* it was: a file of the same name is replaced, every other file stays.
RECURSIVE WriteFiles(_, _, _)
WriteFiles(dir, files, n) ==
    IF n = 0 THEN dir
    ELSE DictPut(WriteFiles(dir, files, n - 1), files[n].k, files[n].v)

VARIABLES
    doc,                          \* the pages of statement.pdf_path
    sheet,                        \* the active sheet of statement.excel_path
    pc,                           \* the next step of process_statement_task
    status,                       \* statement.status
    processing_error,             \* statement.processing_error
    transactions_by_cardholder,   \* line 49
    sections,                     \* what _find_cardholder_sections computed
    pdf_results,                  \* line 59
    pdf_files,                    \* the files under pdf_output_dir
    validation_results,           \* line 62
    csv_results,                  \* line 74
    csv_files,                    \* the files under csv_output_dir
    groups,                       \* the CardholderStatement rows committed
    result,                       \* the dict the task returns, lines 223-227
    missing,                      \* the columns the ValueError of line 80 names
    inv,                          \* two requests or invocations: the locals of each
    shared                        \* what they share: processor instances, disk, database

vars ==
    <<doc, sheet, pc, status, processing_error, transactions_by_cardholder, sections,
      pdf_results, pdf_files, validation_results, csv_results, csv_files, groups,
      result, missing, inv, shared>>

NoInvocations == <<>>

NoShared == [processors |-> <<>>, disk |-> <<>>, cardholders |-> {}]

NoSections == [pages |-> <<>>, totals |-> <<>>, blank |-> <<>>, summary |-> <<>>]

\* ----------------------------------------------------------- the inputs
RECURSIVE SeqsUpTo(_, _)
SeqsUpTo(S, n) ==
    IF n = 0 THEN {<<>>}
    ELSE LET shorter == SeqsUpTo(S, n - 1)
         IN  shorter \cup {Append(s, x) : s \in {t \in shorter : Len(t) = n - 1}, x \in S}

SegPages ==
    {ContentPage, EmptyPage, ContinuedPage, MentionPage(JOHN_SMITH),
     TotalPage(JOHN_SMITH), TotalPage(JOHN_SMITH_JR), TotalPage(FIELD_2),
     ShortTotalPage(MARY_JONES), TwoTotalsPage(MARY_JONES, JOHN_SMITH),
     TwoTotalsPage(MARY_JONES, MARY_JONES), ShortAmountPage}

SegDocs == SeqsUpTo(SegPages, MaxPages) \ {<<>>}

RecPages ==
    {TotalPage(JOHN_SMITH), TotalPage(MARY_JONES), TotalPage(SMITH),
     TotalPage(JOHN_Q_SMITH)}

RecDocs == SeqsUpTo(RecPages, MaxRecPages) \ {<<>>}

Num(v) == [t |-> "num", v |-> v]
Str(s) == [t |-> "str", s |-> s]
NoValue == [t |-> "none"]

Row(first, last, amount, d1) ==
    [supp_first |-> first, supp_last |-> last, amount |-> amount,
     desc |-> [i \in DescRange |-> IF i = 1 THEN d1 ELSE ""],
     basic_first |-> <<>>, basic_last |-> <<>>]

\* A row of the basic cardmember: the supplemental name cells are empty.
BasicRow(first, last, amount, d1) ==
    [Row(<<>>, <<>>, amount, d1) EXCEPT !.basic_first = first, !.basic_last = last]

RowKinds ==
    {Row(<<"JOHN">>, <<"SMITH">>, Num(1004), "FUEL"),
     Row(<<"JOHN">>, <<"Q", "SMITH">>, Num(1004), "HOTEL"),
     Row(<<"JOHN">>, <<"X", "SMITH">>, Num(2500), ""),
     Row(<<"mary">>, <<"jones">>, Str(<<"$", "1", ",", "0", "0", "0", ".", "5">>), "FUEL"),
     Row(<<"JOHN">>, <<"SMITH">>, Str(<<"N", "/", "A">>), "FUEL"),
     Row(<<>>, <<>>, Num(2500), "FUEL"),
     Row(<<"JOHN">>, <<"SMITH">>, NoValue, ""),
     Row(<<"SMITH">>, <<"SMITH">>, Num(1004), "FUEL")}

FullHeader ==
    <<"Supplemental Cardmember First Name", "Supplemental Cardmember Last Name",
      "Transaction Amount USD", "Business Process Date", "Transaction Date",
      "Transaction Description 1">>

NoAmountHeader ==
    <<"Supplemental Cardmember First Name", "Supplemental Cardmember Last Name",
      "Business Process Date", "Transaction Date", "Transaction Description 1">>

Sheets ==
    {[product_row |-> r, header |-> h, rows |-> rs] :
        r \in {0, 6}, h \in {FullHeader, NoAmountHeader},
        rs \in SeqsUpTo(RowKinds, MaxRows)}

\* Headers that lack one or both of the date columns.
NoBusinessDateHeader ==
    <<"Supplemental Cardmember First Name", "Supplemental Cardmember Last Name",
      "Transaction Amount USD", "Transaction Date", "Transaction Description 1">>

NoTransactionDateHeader ==
    <<"Supplemental Cardmember First Name", "Supplemental Cardmember Last Name",
      "Transaction Amount USD", "Business Process Date", "Transaction Description 1">>

NoDateHeader ==
    <<"Supplemental Cardmember First Name", "Supplemental Cardmember Last Name",
      "Transaction Amount USD", "Transaction Description 1">>

\* A header with the name columns of the basic cardmember beside the
\* supplemental ones.
BasicNamesHeader ==
    <<"Basic Cardmember First Name", "Basic Cardmember Last Name">> \o FullHeader

\* A header with a tenth description column.
TenDescriptionsHeader == FullHeader \o <<"Transaction Description 10">>

TabHeaders ==
    {FullHeader, NoAmountHeader, NoBusinessDateHeader, NoTransactionDateHeader,
     NoDateHeader, BasicNamesHeader, TenDescriptionsHeader}

TabRowKinds ==
    RowKinds \cup
        {BasicRow(<<"MARY">>, <<"JONES">>, Num(2500), "FUEL"),
         [Row(<<"JOHN">>, <<"SMITH">>, Num(1004), "FUEL") EXCEPT !.desc[10] = "SHELL"]}

TabSheets ==
    {[product_row |-> r, header |-> h, rows |-> rs] :
        r \in {0, 6}, h \in TabHeaders, rs \in SeqsUpTo(TabRowKinds, MaxRows)}

\* The statements of the retried task.
RetryDocs == {<<TotalPage(JOHN_SMITH)>>, <<TotalPage(MARY_JONES), TotalPage(JOHN_SMITH)>>}

RetryRows ==
    {Row(<<"JOHN">>, <<"SMITH">>, Num(1004), "FUEL"),
     Row(<<"mary">>, <<"jones">>, Str(<<"$", "1", ",", "0", "0", "0", ".", "5">>), "FUEL"),
     Row(<<"JOHN">>, <<"SMITH">>, Str(<<"N", "/", "A">>), "FUEL")}

RetrySheets ==
    {[product_row |-> 6, header |-> FullHeader, rows |-> rs] :
        rs \in SeqsUpTo(RetryRows, MaxRetryRows)}

\* The statements of two invocations that run at the same time.
StatementIds == {1, 2}

LastNameFirstHeader ==
    <<"Supplemental Cardmember Last Name", "Supplemental Cardmember First Name",
      "Transaction Amount USD", "Business Process Date", "Transaction Date",
      "Transaction Description 1">>

PairDocs == {<<TotalPage(JOHN_SMITH)>>, <<TotalPage(MARY_JONES), TotalPage(JOHN_SMITH)>>}

PairRows == {Row(<<"JOHN">>, <<"SMITH">>, Num(1004), "FUEL")}

PairSheets ==
    {[product_row |-> r, header |-> h, rows |-> rs] :
        r \in {6, 7}, h \in {FullHeader, LastNameFirstHeader},
        rs \in SeqsUpTo(PairRows, MaxPairRows)}

\* The cardholders table before the two invocations.
PairCardholders == {{}, {JOHN_SMITH}}

EmptySheet == [product_row |-> 6, header |-> FullHeader, rows |-> <<>>]

\* ---------------------------------------------------------- the actions
\* Lines 30-37: the statement is marked PROCESSING.
Begin ==
    /\ pc = "begin"
    /\ status' = "PROCESSING"
    /\ pc' = "parse"
    /\ UNCHANGED <<doc, sheet, processing_error, transactions_by_cardholder, sections,
                   pdf_results, pdf_files, validation_results, csv_results, csv_files,
                   groups, result, missing>>
    /\ UNCHANGED <<inv, shared>>

\* Line 49, with the handler of lines 229-244 when parse_statement raises.
ParseExcel ==
    /\ pc = "parse"
    /\ LET r == ParseStatement(sheet)
       IN  IF r.error = ""
           THEN /\ transactions_by_cardholder' = r.tbc
                /\ pc' = "split"
                /\ UNCHANGED <<status, processing_error, missing>>
           ELSE /\ status' = "ERROR"
                /\ processing_error' = r.error
                /\ missing' = r.missing
                /\ pc' = "failed"
                /\ UNCHANGED transactions_by_cardholder
    /\ UNCHANGED <<doc, sheet, sections, pdf_results, pdf_files, validation_results,
                   csv_results, csv_files, groups, result>>
    /\ UNCHANGED <<inv, shared>>

\* Line 59: PDFProcessor.split_by_cardholder
SplitByCardholder ==
    /\ pc = "split"
    /\ LET found == FindCardholderSections(doc)
           split == SplitLoop(doc, found.pages, Len(found.pages))
       IN  /\ sections' = found
           /\ pdf_results' = split.results
           /\ pdf_files' = WriteFiles(pdf_files, split.files, Len(split.files))
    /\ pc' = "validate"
    /\ UNCHANGED <<doc, sheet, status, processing_error, transactions_by_cardholder,
                   validation_results, csv_results, csv_files, groups, result, missing>>
    /\ UNCHANGED <<inv, shared>>

\* Lines 62-65: PDFProcessor.validate_split
ValidateSplit ==
    /\ pc = "validate"
    /\ validation_results' = ValidateLoop(doc, pdf_files, pdf_results, Len(pdf_results))
    /\ pc' = "csv"
    /\ UNCHANGED <<doc, sheet, status, processing_error, transactions_by_cardholder,
                   sections, pdf_results, pdf_files, csv_results, csv_files, groups,
                   result, missing>>
    /\ UNCHANGED <<inv, shared>>

\* Lines 74-79: ExcelProcessor.generate_csv_files
GenerateCsv ==
    /\ pc = "csv"
    /\ LET r == GenerateCsvFiles(transactions_by_cardholder,
                                 Len(transactions_by_cardholder))
       IN  /\ csv_results' = r.file_paths
           /\ csv_files' = WriteFiles(csv_files, r.files, Len(r.files))
    /\ pc' = "records"
    /\ UNCHANGED <<doc, sheet, status, processing_error, transactions_by_cardholder,
                   sections, pdf_results, pdf_files, validation_results, groups,
                   result, missing>>
    /\ UNCHANGED <<inv, shared>>

\* Lines 106-184: the records of every document cardholder, committed with
\* the statement marked SPLIT; lines 223-227: the dict returned.
CreateRecords ==
    /\ pc = "records"
    /\ LET created == CardholderStatements(pdf_results, transactions_by_cardholder,
                                           csv_results, Len(pdf_results))
       IN  /\ groups' = created
           /\ result' = TaskResult(created)
    /\ status' = "SPLIT"
    /\ pc' = "done"
    /\ UNCHANGED <<doc, sheet, processing_error, transactions_by_cardholder, sections,
                   pdf_results, pdf_files, validation_results, csv_results, csv_files,
                   missing>>
    /\ UNCHANGED <<inv, shared>>

Blank ==
    /\ status = "PENDING"
    /\ processing_error = ""
    /\ transactions_by_cardholder = <<>>
    /\ sections = NoSections
    /\ pdf_results = <<>>
    /\ pdf_files = <<>>
    /\ validation_results = <<>>
    /\ csv_results = <<>>
    /\ csv_files = <<>>
    /\ groups = <<>>
    /\ result = <<>>
    /\ missing = {}
    /\ inv = NoInvocations
    /\ shared = NoShared

\* A task picked up for a statement whose two files were uploaded.
Init ==
    /\ doc \in RecDocs
    /\ sheet \in Sheets
    /\ pc = "begin"
    /\ Blank

Next ==
    \/ Begin
    \/ ParseExcel
    \/ SplitByCardholder
    \/ ValidateSplit
    \/ GenerateCsv
    \/ CreateRecords

Spec == Init /\ [][Next]_vars

\* Lines 106-184 when the database raises, with the handler of lines 229-244.
\* The handler writes the status through the session that has just failed:
\* its db.commit() of line 236 either succeeds or raises in its turn, and
\* then the status committed at line 37 stays.
FailRecords ==
    /\ pc = "records"
    /\ \/ status' = "ERROR" /\ processing_error' = "database error"
       \/ UNCHANGED <<status, processing_error>>
    /\ pc' = "failed"
    /\ UNCHANGED <<doc, sheet, transactions_by_cardholder, sections, pdf_results,
                   pdf_files, validation_results, csv_results, csv_files, groups,
                   result, missing>>
    /\ UNCHANGED <<inv, shared>>

\* The upload of another statement of the same month whose tabular file has
\* the same file name: the file at statement.excel_path is replaced.
OverwriteExcel ==
    /\ pc = "failed"
    /\ \E s \in RetrySheets : s # sheet /\ sheet' = s
    /\ UNCHANGED <<doc, pc, status, processing_error, transactions_by_cardholder,
                   sections, pdf_results, pdf_files, validation_results, csv_results,
                   csv_files, groups, result, missing>>
    /\ UNCHANGED <<inv, shared>>

\* The task is sent again for the same statement_id after an invocation
\* that ended in the handler: its locals are new, the statement row and the
\* directories statements/{statement_id}/pdfs and /csvs are as they were left.
Retry ==
    /\ pc = "failed"
    /\ pc' = "begin"
    /\ transactions_by_cardholder' = <<>>
    /\ sections' = NoSections
    /\ pdf_results' = <<>>
    /\ validation_results' = <<>>
    /\ csv_results' = <<>>
    /\ result' = <<>>
    /\ missing' = {}
    /\ UNCHANGED <<doc, sheet, status, processing_error, pdf_files, csv_files, groups>>
    /\ UNCHANGED <<inv, shared>>

\* A statement processed, failed and processed again.
InitRetry ==
    /\ doc \in RetryDocs
    /\ sheet \in RetrySheets
    /\ pc = "begin"
    /\ Blank

NextRetry ==
    \/ Begin
    \/ ParseExcel
    \/ SplitByCardholder
    \/ ValidateSplit
    \/ GenerateCsv
    \/ CreateRecords
    \/ FailRecords
    \/ OverwriteExcel
    \/ Retry

SpecRetry == InitRetry /\ [][NextRetry]_vars

\* One invocation that runs to its end, the database failing or not.
NextTask ==
    \/ Begin
    \/ ParseExcel
    \/ SplitByCardholder
    \/ ValidateSplit
    \/ GenerateCsv
    \/ CreateRecords
    \/ FailRecords

TaskDocs == {<<p>> : p \in RecPages}

InitTask ==
    /\ doc \in TaskDocs
    /\ sheet \in RetrySheets
    /\ pc = "begin"
    /\ Blank

\* The worker runs a task it has taken to the end of the function.
SpecTask == InitTask /\ [][NextTask]_vars /\ WF_vars(NextTask)

\* The Document Segmenter on its own: split_by_cardholder and validate_split
\* as the task calls them, over documents of every page kind.
InitSeg ==
    /\ doc \in SegDocs
    /\ sheet = EmptySheet
    /\ pc = "split"
    /\ status = "PROCESSING"
    /\ processing_error = ""
    /\ transactions_by_cardholder = <<>>
    /\ sections = NoSections
    /\ pdf_results = <<>>
    /\ pdf_files = <<>>
    /\ validation_results = <<>>
    /\ csv_results = <<>>
    /\ csv_files = <<>>
    /\ groups = <<>>
    /\ result = <<>>
    /\ missing = {}
    /\ inv = NoInvocations
    /\ shared = NoShared

NextSeg ==
    \/ SplitByCardholder
    \/ ValidateSplit

SpecSeg == InitSeg /\ [][NextSeg]_vars

\* The Tabular Extractor on its own: parse_statement as the task calls it,
\* over sheets of every header kind.
InitTab ==
    /\ doc = <<TotalPage(JOHN_SMITH)>>
    /\ sheet \in TabSheets
    /\ pc = "parse"
    /\ status = "PROCESSING"
    /\ processing_error = ""
    /\ transactions_by_cardholder = <<>>
    /\ sections = NoSections
    /\ pdf_results = <<>>
    /\ pdf_files = <<>>
    /\ validation_results = <<>>
    /\ csv_results = <<>>
    /\ csv_files = <<>>
    /\ groups = <<>>
    /\ result = <<>>
    /\ missing = {}
    /\ inv = NoInvocations
    /\ shared = NoShared

NextTab == ParseExcel

SpecTab == InitTab /\ [][NextTab]_vars

\* ------------------------------------------------- two invocations
\* Lines 40-41: PDFProcessor() and ExcelProcessor() are constructed in the
\* invocation; the instance is identified by the invocation.
ProcessorOf(statement_id) == statement_id

\* ExcelProcessor.__init__: header_row None (0), column_map {}.
NewProcessor == [header_row |-> 0, column_map |-> MapColumnsUpTo(<<>>, 0)]

\* Lines 44-45: statements/{statement_id}/pdfs and statements/{statement_id}/csvs
OutputDir(statement_id, kind) == <<statement_id, kind>>

DirFiles(disk, dir) == IF DictHas(disk, dir) THEN DictGet(disk, dir) ELSE <<>>

\* Line 101: the data rows start below self.header_row (which is never above
\* the row _find_header_row returned for the sheet).
RowsBelow(sh, header_row) ==
    [sh EXCEPT !.rows = SubSeq(sh.rows, header_row - sh.product_row + 1, Len(sh.rows)),
               !.product_row = header_row]

\* The names of the cardholders of a split result.
NamesOf(results) == {results[i].k : i \in 1..Len(results)}

single ==
    <<doc, sheet, pc, status, processing_error, transactions_by_cardholder, sections,
      pdf_results, pdf_files, validation_results, csv_results, csv_files, groups,
      result, missing>>

\* Lines 30-45 of invocation s.
PairBegin(s) ==
    /\ inv[s].pc = "begin"
    /\ inv' = [inv EXCEPT ![s].pc = "map", ![s].status = "PROCESSING"]
    /\ shared' = [shared EXCEPT !.processors = DictPut(@, ProcessorOf(s), NewProcessor)]
    /\ UNCHANGED single

\* parse_statement lines 94-95: self.header_row and self.column_map are set.
PairMapColumns(s) ==
    /\ inv[s].pc = "map"
    /\ LET sh == inv[s].sheet
           header_row == FindHeaderRow(sh)
           column_map == MapColumnsUpTo(sh.header, Len(sh.header))
       IN  IF header_row = 0
           THEN /\ inv' = [inv EXCEPT ![s].pc = "failed", ![s].status = "ERROR"]
                /\ UNCHANGED shared
           ELSE /\ shared' = [shared EXCEPT !.processors =
                                 DictPut(@, ProcessorOf(s),
                                         [header_row |-> header_row,
                                          column_map |-> column_map])]
                /\ IF MissingColumns(column_map) # {}
                   THEN inv' = [inv EXCEPT ![s].pc = "failed", ![s].status = "ERROR"]
                   ELSE inv' = [inv EXCEPT ![s].pc = "rows"]
    /\ UNCHANGED single

\* parse_statement lines 97-170: the rows are read through self.header_row
\* and self.column_map.
PairParseRows(s) ==
    /\ inv[s].pc = "rows"
    /\ LET processor == DictGet(shared.processors, ProcessorOf(s))
           sh == RowsBelow(inv[s].sheet, processor.header_row)
           rows == ParseRows(sh, processor.column_map, Len(sh.rows))
       IN  IF rows.raised
           THEN inv' = [inv EXCEPT ![s].pc = "failed", ![s].status = "ERROR"]
           ELSE inv' = [inv EXCEPT ![s].pc = "split",
                                   ![s].transactions_by_cardholder = rows.tbc]
    /\ UNCHANGED <<single, shared>>

\* Lines 59-65: the slices are written under the pdfs directory of s; the
\* findings of validate_split are logged.
PairSplit(s) ==
    /\ inv[s].pc = "split"
    /\ LET found == FindCardholderSections(inv[s].doc)
           split == SplitLoop(inv[s].doc, found.pages, Len(found.pages))
           dir == OutputDir(s, "pdfs")
       IN  /\ inv' = [inv EXCEPT ![s].pc = "csv", ![s].pdf_results = split.results]
           /\ shared' = [shared EXCEPT !.disk =
                            DictPut(@, dir, WriteFiles(DirFiles(@, dir), split.files,
                                                       Len(split.files)))]
    /\ UNCHANGED single

\* Lines 74-79: the artifacts are written under the csvs directory of s.
PairGenerateCsv(s) ==
    /\ inv[s].pc = "csv"
    /\ LET r == GenerateCsvFiles(inv[s].transactions_by_cardholder,
                                 Len(inv[s].transactions_by_cardholder))
           dir == OutputDir(s, "csvs")
       IN  /\ inv' = [inv EXCEPT ![s].pc = "query", ![s].csv_results = r.file_paths]
           /\ shared' = [shared EXCEPT !.disk =
                            DictPut(@, dir, WriteFiles(DirFiles(@, dir), r.files,
                                                       Len(r.files)))]
    /\ UNCHANGED single

\* Lines 107-109: the cardholders of the document are looked up by
\* full_name; the session sees the rows that are committed.
PairQueryCardholders(s) ==
    /\ inv[s].pc = "query"
    /\ inv' = [inv EXCEPT ![s].pc = "records",
                          ![s].seen = NamesOf(inv[s].pdf_results) \cap shared.cardholders]
    /\ UNCHANGED <<single, shared>>

\* Lines 111-227: a Cardholder row is added for every name that was not
\* found and the records are committed.  full_name is unique
\* (models.py line 70): the flush raises when another invocation has
\* committed the name since the lookup, and the invocation ends in the
\* handler of lines 229-244.
PairCreateRecords(s) ==
    /\ inv[s].pc = "records"
    /\ LET added == NamesOf(inv[s].pdf_results) \ inv[s].seen
           created == CardholderStatements(inv[s].pdf_results,
                                           inv[s].transactions_by_cardholder,
                                           inv[s].csv_results, Len(inv[s].pdf_results))
       IN  IF added \cap shared.cardholders # {}
           THEN /\ \E st \in {"ERROR", "PROCESSING"} :
                      inv' = [inv EXCEPT ![s].pc = "failed", ![s].status = st]
                /\ UNCHANGED shared
           ELSE /\ inv' = [inv EXCEPT ![s].pc = "done", ![s].status = "SPLIT",
                                       ![s].result = TaskResult(created)]
                /\ shared' = [shared EXCEPT !.cardholders = @ \cup added]
    /\ UNCHANGED single

NewInvocation(d, sh) ==
    [pc |-> "begin", status |-> "PENDING", doc |-> d, sheet |-> sh,
     transactions_by_cardholder |-> <<>>, pdf_results |-> <<>>, csv_results |-> <<>>,
     seen |-> {}, result |-> <<>>]

\* Two statements uploaded, the task queued for each.
InitPair ==
    /\ doc = <<TotalPage(JOHN_SMITH)>>
    /\ sheet = EmptySheet
    /\ pc = "begin"
    /\ status = "PENDING"
    /\ processing_error = ""
    /\ transactions_by_cardholder = <<>>
    /\ sections = NoSections
    /\ pdf_results = <<>>
    /\ pdf_files = <<>>
    /\ validation_results = <<>>
    /\ csv_results = <<>>
    /\ csv_files = <<>>
    /\ groups = <<>>
    /\ result = <<>>
    /\ missing = {}
    /\ \E d1, d2 \in PairDocs : \E s1, s2 \in PairSheets :
          inv = [s \in StatementIds |->
                    IF s = 1 THEN NewInvocation(d1, s1) ELSE NewInvocation(d2, s2)]
    /\ \E c \in PairCardholders :
          shared = [processors |-> <<>>, disk |-> <<>>, cardholders |-> c]

NextPair ==
    \/ \E s \in StatementIds : PairBegin(s)
    \/ \E s \in StatementIds : PairMapColumns(s)
    \/ \E s \in StatementIds : PairParseRows(s)
    \/ \E s \in StatementIds : PairSplit(s)
    \/ \E s \in StatementIds : PairGenerateCsv(s)
    \/ \E s \in StatementIds : PairQueryCardholders(s)
    \/ \E s \in StatementIds : PairCreateRecords(s)

SpecPair == InitPair /\ [][NextPair]_vars

\* ------------------------------------------- names that share a file name
\* Two cardholders whose names differ by a character _generate_filename drops.
NamePages == {ContentPage, TotalPage(PAT_OBRIEN), TotalPage(PAT_O_BRIEN)}

NameDocs == SeqsUpTo(NamePages, MaxRecPages) \ {<<>>}

InitNames ==
    /\ doc \in NameDocs
    /\ sheet \in RetrySheets
    /\ pc = "begin"
    /\ Blank

SpecNames == InitNames /\ [][Next]_vars

\* ------------------------------------------------- two uploads of one month
\* statements.py upload_statement, for two requests of the same month and
\* year. The bytes of an upload are identified by the request that sent them.
PdfNames == {"statement.pdf", "amex.pdf"}

ExcelNames == {"statement.xlsx", "amex.xlsx"}

\* Lines 61, 65-66: os.path.join(upload_dir, filename), upload_dir being
\* statements/{year}-{month:02d}, the same for both requests.
UploadPath(filename) == <<"statements", "2024-01", filename>>

UploadedBytes(u, kind) == <<u, kind>>

NewUpload(pdf_filename, excel_filename) ==
    [pc |-> "check", pdf_filename |-> pdf_filename, excel_filename |-> excel_filename,
     read_pdf |-> <<>>, read_excel |-> <<>>]

\* The row of statement u, once committed.
StatementRow(statements, u) ==
    LET i == CHOOSE i \in 1..Len(statements) : statements[i].id = u
    IN  statements[i]

\* Lines 49-58: the request is refused when a statement of the month has the
\* same pdf_filename.
UploadCheck(u) ==
    /\ inv[u].pc = "check"
    /\ IF \E i \in 1..Len(shared.statements) :
              shared.statements[i].pdf_filename = inv[u].pdf_filename
       THEN inv' = [inv EXCEPT ![u].pc = "rejected"]
       ELSE inv' = [inv EXCEPT ![u].pc = "save"]
    /\ UNCHANGED shared
    /\ UNCHANGED single

\* Lines 61-75: both files are written under their own file names.
UploadSave(u) ==
    /\ inv[u].pc = "save"
    /\ shared' = [shared EXCEPT !.upload_dir =
                     DictPut(DictPut(@, UploadPath(inv[u].pdf_filename),
                                     UploadedBytes(u, "pdf")),
                             UploadPath(inv[u].excel_filename),
                             UploadedBytes(u, "excel"))]
    /\ inv' = [inv EXCEPT ![u].pc = "commit"]
    /\ UNCHANGED single

\* Lines 81-100: the Statement row is committed and the task queued.
UploadCommit(u) ==
    /\ inv[u].pc = "commit"
    /\ shared' = [shared EXCEPT !.statements =
                     Append(@, [id |-> u,
                                pdf_filename |-> inv[u].pdf_filename,
                                excel_filename |-> inv[u].excel_filename,
                                pdf_path |-> UploadPath(inv[u].pdf_filename),
                                excel_path |-> UploadPath(inv[u].excel_filename)])]
    /\ inv' = [inv EXCEPT ![u].pc = "queued"]
    /\ UNCHANGED single

\* statement_tasks.py lines 49 and 59: the task of statement u opens
\* statement.excel_path and statement.pdf_path.
ProcessUploaded(u) ==
    /\ inv[u].pc = "queued"
    /\ LET statement == StatementRow(shared.statements, u)
       IN  inv' = [inv EXCEPT ![u].pc = "processed",
                              ![u].read_excel = DictGet(shared.upload_dir,
                                                        statement.excel_path),
                              ![u].read_pdf = DictGet(shared.upload_dir,
                                                      statement.pdf_path)]
    /\ UNCHANGED shared
    /\ UNCHANGED single

\* Two upload requests received for the same month and year.
InitUpload ==
    /\ doc = <<TotalPage(JOHN_SMITH)>>
    /\ sheet = EmptySheet
    /\ pc = "begin"
    /\ status = "PENDING"
    /\ processing_error = ""
    /\ transactions_by_cardholder = <<>>
    /\ sections = NoSections
    /\ pdf_results = <<>>
    /\ pdf_files = <<>>
    /\ validation_results = <<>>
    /\ csv_results = <<>>
    /\ csv_files = <<>>
    /\ groups = <<>>
    /\ result = <<>>
    /\ missing = {}
    /\ \E p1, p2 \in PdfNames : \E e1, e2 \in ExcelNames :
          inv = [u \in StatementIds |->
                    IF u = 1 THEN NewUpload(p1, e1) ELSE NewUpload(p2, e2)]
    /\ shared = [upload_dir |-> <<>>, statements |-> <<>>]

NextUpload ==
    \/ \E u \in StatementIds : UploadCheck(u)
    \/ \E u \in StatementIds : UploadSave(u)
    \/ \E u \in StatementIds : UploadCommit(u)
    \/ \E u \in StatementIds : ProcessUploaded(u)

SpecUpload == InitUpload /\ [][NextUpload]_vars

\* ------------------------------------------------------------ the claims
Segmented == pc \notin {"begin", "parse", "split", "failed"}

Validated == pc \in {"csv", "records", "done"}

RangesHolding(p) ==
    {i \in 1..Len(sections.pages) :
        sections.pages[i].v.start <= p /\ p <= sections.pages[i].v.end}

\* C1: once the document is segmented, every page 1..N is in exactly one of:
\* one cardholder's range, the leading summary pages, the blank/continuation
\* pages (no gap, no overlap).
C1_EveryPageExactlyOnce ==
    Segmented =>
        \A p \in 1..Len(doc) :
            Cardinality(RangesHolding(p))
              + (IF InSeq(p, sections.summary) THEN 1 ELSE 0)
              + (IF InSeq(p, sections.blank) THEN 1 ELSE 0) = 1

\* C2: the ranges returned by _find_cardholder_sections satisfy
\* 1 <= start <= end <= page count, are pairwise disjoint, and in the order
\* of their boundary pages each starts strictly after the previous one ends.
C2_RangesDisjointIncreasing ==
    Segmented =>
        LET r == sections.pages
        IN  /\ \A i \in 1..Len(r) :
                  1 <= r[i].v.start /\ r[i].v.start <= r[i].v.end
                                    /\ r[i].v.end <= Len(doc)
            /\ \A i, j \in 1..Len(r) :
                  i # j => \A p \in r[i].v.start..r[i].v.end :
                              p < r[j].v.start \/ p > r[j].v.end
            /\ \A i, j \in 1..Len(r) :
                  r[i].v.end < r[j].v.end => r[i].v.end < r[j].v.start

\* Two ranges, the later one opened after blank pages were skipped.
C2_Witness ==
    /\ Segmented
    /\ \E i, j \in 1..Len(sections.pages) :
          /\ sections.pages[i].v.end + 1 < sections.pages[j].v.start
          /\ sections.pages[j].v.start < sections.pages[j].v.end
          /\ \A p \in (sections.pages[i].v.end + 1)..(sections.pages[j].v.start - 1) :
                InSeq(p, sections.blank)

\* The markers of slice page n of the file split_by_cardholder wrote for owner.
SliceOf(owner) == DictGet(pdf_files, DictGet(pdf_results, owner).path)

ForeignMarkers(owner, n) ==
    LET m == doc[SliceOf(owner)[n]].markers
    IN  {m[j] : j \in 1..Len(m)} \ {owner}

Reported(owner, n, other) ==
    /\ DictHas(validation_results, owner)
    /\ \E k \in 1..Len(DictGet(validation_results, owner)) :
          LET w == DictGet(validation_results, owner)[k]
          IN  w.kind = "total" /\ w.page = n /\ w.name = other

CleanMarkers ==
    /\ \A p \in 1..Len(doc) : Len(doc[p].markers) <= 1
    /\ \A p, q \in 1..Len(doc) :
          (/\ p # q
           /\ doc[p].markers # <<>>
           /\ doc[q].markers # <<>>
           /\ doc[p].markers[1] \notin skip_names)
             => doc[p].markers[1] # doc[q].markers[1]

\* C4: on a statement with clean, non-overlapping boundary markers,
\* validate_split reports no finding for any cardholder.
C4_CleanSplitNoFinding ==
    (Validated /\ CleanMarkers) => validation_results = <<>>

\* C5: for every cardholder name that is a key of both the segmentation
\* result and the tabular grouping, the reconciler attaches exactly the
\* Tabular Extractor's list for that key, in the same order.
C5_ExactMatchKeepsList ==
    pc = "done" =>
        \A i \in 1..Len(groups) :
            DictHas(transactions_by_cardholder, groups[i].name) =>
                groups[i].transactions =
                    DictGet(transactions_by_cardholder, groups[i].name)

\* An exactly matched cardholder with two transactions.
C5_Witness ==
    /\ pc = "done"
    /\ \E i \in 1..Len(groups) :
          /\ DictHas(transactions_by_cardholder, groups[i].name)
          /\ Len(groups[i].transactions) >= 2

\* The first and last tokens of two names are equal.
EndsAgree(a, b) == a[1] = b[1] /\ a[Len(a)] = b[Len(b)]

\* The list of the first tabular key, in extraction order, whose first and
\* last tokens equal those of name; the empty list when there is none.
FirstEndsAgreeing(name) ==
    LET tbc == transactions_by_cardholder
        hits == {i \in 1..Len(tbc) : EndsAgree(name, tbc[i].k)}
    IN  IF hits = {} THEN <<>>
        ELSE tbc[CHOOSE i \in hits : \A j \in hits : i <= j].v

\* C6 as stated: a document name with no exact tabular key gets the list of
\* the first tabular key whose first and last tokens equal its own, and the
\* empty list when no key does.
C6_ApproximateMatch ==
    pc = "done" =>
        \A i \in 1..Len(groups) :
            ~DictHas(transactions_by_cardholder, groups[i].name) =>
                groups[i].transactions = FirstEndsAgreeing(groups[i].name)

\* C6 amended: that holds for a document name of two tokens or more; a
\* document name of a single token with no exact key gets the empty list.
C6_ApproximateMatchTwoTokens ==
    pc = "done" =>
        \A i \in 1..Len(groups) :
            ~DictHas(transactions_by_cardholder, groups[i].name) =>
                groups[i].transactions =
                    IF Len(groups[i].name) >= 2
                    THEN FirstEndsAgreeing(groups[i].name) ELSE <<>>

\* JOHN SMITH of the document, no such tabular key, two keys that agree with
\* it on first and last token: the list of the first one is attached.
C6_Witness ==
    /\ pc = "done"
    /\ \E i \in 1..Len(groups) :
          /\ groups[i].name = JOHN_SMITH
          /\ KeySet(transactions_by_cardholder) = {JOHN_Q_SMITH, JOHN_X_SMITH}
          /\ groups[i].transactions = transactions_by_cardholder[1].v

CsvGenerated == pc \in {"records", "done"}

RECURSIVE SumOfLines(_, _)
SumOfLines(rows, n) ==
    IF n <= 1 THEN 0 ELSE rows[n].amount + SumOfLines(rows, n - 1)

\* C8: every coded-import artifact is one APHB record followed by one APLB
\* record per transaction of that cardholder in source row order; the header
\* total equals the sum of the line amounts; every line carries its own
\* transaction's amount and blank GL account, job, phase and cost type.
C8_CsvArtifact ==
    CsvGenerated =>
        \A k \in 1..Len(csv_results) :
            LET rows == DictGet(csv_files, csv_results[k].v)
                trans == DictGet(transactions_by_cardholder, csv_results[k].k)
            IN  /\ Len(rows) = 1 + Len(trans)
                /\ rows[1].tag = "APHB"
                /\ \A n \in 1..Len(trans) :
                      /\ rows[n + 1].tag = "APLB"
                      /\ rows[n + 1].amount = Format2f(trans[n].amount)
                      /\ rows[n + 1].text[1] = trans[n].description
                      /\ rows[n + 1].gl_account = "" /\ rows[n + 1].job = ""
                      /\ rows[n + 1].phase = "" /\ rows[n + 1].cost_type = ""
                /\ \A n \in 1..(Len(trans) - 1) :
                      trans[n].row_number < trans[n + 1].row_number
                /\ rows[1].amount = SumOfLines(rows, Len(rows))

\* C9: one CardholderGroup per document-derived name, and a group with at
\* least one matched transaction is linked to a coded-import artifact that
\* holds exactly the group's transactions.
C9_GroupLinkedToArtifact ==
    pc = "done" =>
        /\ Len(groups) = Len(pdf_results)
        /\ \A i \in 1..Len(groups) : groups[i].name = pdf_results[i].k
        /\ \A i \in 1..Len(groups) :
              groups[i].transactions # <<>> =>
                  /\ DictHas(csv_files, groups[i].csv_path)
                  /\ LET rows == DictGet(csv_files, groups[i].csv_path)
                     IN  /\ Len(rows) = 1 + groups[i].transaction_count
                         /\ \A n \in 1..groups[i].transaction_count :
                               rows[n + 1].text =
                                   <<groups[i].transactions[n].description,
                                     groups[i].transactions[n].merchant>>

\* What the claims call the structural prerequisites of an extraction.
HeaderRowFound == sheet.product_row \in 1..LastHeaderScanRow

RequiredColumnsFound ==
    /\ InSeq("Transaction Amount USD", sheet.header)
    /\ InSeq("Business Process Date", sheet.header)
          \/ InSeq("Transaction Date", sheet.header)

\* C10: a data row whose amount cannot be parsed is skipped; the extraction
\* and the run complete.  Only a missing header row or missing required
\* columns abort the extraction.
C10_OnlyStructureAborts ==
    pc = "failed" => ~HeaderRowFound \/ ~RequiredColumnsFound

\* The three items of the returned dict: an outcome word and two counts.
CountKeys == {"status", "cardholders_processed", "transactions_created"}

\* Document cardholders whose group got no transaction.
UnmatchedDocumentNames ==
    {groups[i].name : i \in {j \in 1..Len(groups) : groups[j].transactions = <<>>}}

\* Tabular keys that no document name equals or agrees with on first and
\* last token.
UnmatchedTabularKeys ==
    {k \in KeySet(transactions_by_cardholder) :
        \A i \in 1..Len(groups) :
            groups[i].name # k /\ ~FuzzyMatch(groups[i].name, k)}

\* Some item of the returned dict, other than the outcome and the counts,
\* holds the name.
NamedInResult(name) ==
    \E n \in 1..Len(result) : result[n].k \notin CountKeys /\ name \in result[n].v

\* C11: the result returned to the caller identifies every document
\* cardholder that got zero transactions and every tabular group that no
\* document cardholder matched.
C11_MismatchesInResult ==
    pc = "done" =>
        \A name \in UnmatchedDocumentNames \cup UnmatchedTabularKeys :
            NamedInResult(name)

\* C12: the findings of validate_split are part of the result the
\* invocation returns to its caller.
C12_ValidationInResult ==
    (pc = "done" /\ validation_results # <<>>) =>
        \E n \in 1..Len(result) :
            result[n].k \notin CountKeys /\ result[n].v = validation_results

\* The last page that carries a boundary marker; 0 when no page does.
LastBoundaryPage ==
    IF sections.totals = <<>> THEN 0
    ELSE sections.totals[Len(sections.totals)].page

\* C15: when non-blank pages follow the last boundary marker, the range
\* still open at the end of the document is closed at the last page: some
\* range ends at the last page.
C15_FinalRangeClosed ==
    (/\ Segmented
     /\ LastBoundaryPage > 0
     /\ \E p \in (LastBoundaryPage + 1)..Len(doc) : ~IsBlankOrHeaderOnlyPage(doc[p]))
        => \E i \in 1..Len(sections.pages) : sections.pages[i].v.end = Len(doc)

\* Occurrences of name among the first j markers of a page.
RECURSIVE MarkerCount(_, _, _)
MarkerCount(markers, name, j) ==
    IF j = 0 THEN 0
    ELSE MarkerCount(markers, name, j - 1) + (IF markers[j] = name THEN 1 ELSE 0)

\* Occurrences of the owner's marker on the first n pages of the owner's slice.
RECURSIVE OwnMarkerCount(_, _)
OwnMarkerCount(owner, n) ==
    IF n = 0 THEN 0
    ELSE OwnMarkerCount(owner, n - 1)
           + MarkerCount(doc[SliceOf(owner)[n]].markers, owner,
                         Len(doc[SliceOf(owner)[n]].markers))

\* C17: validate_split reports an issue for a slice whenever the owner's
\* own marker occurs in it zero times or two or more times.
C17_OwnMarkerExactlyOnce ==
    Validated =>
        \A owner \in KeySet(pdf_results) :
            OwnMarkerCount(owner, Len(SliceOf(owner))) # 1
                => DictHas(validation_results, owner)

\* C18: the leading summary pages, the content pages before the first
\* boundary page, are in no cardholder's range.
C18_SummaryPagesInNoRange ==
    Segmented =>
        \A p \in 1..Len(doc) : InSeq(p, sections.summary) => RangesHolding(p) = {}

\* A page without a marker that _is_blank_or_header_only_page calls blank.
BlankOrContinuation(p) == doc[p].markers = <<>> /\ IsBlankOrHeaderOnlyPage(doc[p])

\* The smallest page of from..to that is not blank/continuation.
FirstNonBlank(from, to) ==
    CHOOSE p \in from..to :
        /\ ~BlankOrContinuation(p)
        /\ \A q \in from..(p - 1) : BlankOrContinuation(q)

\* C19: the range of a retained cardholder after the first boundary ends at
\* the cardholder's boundary page and starts at the smallest page after the
\* previous boundary page (retained or skipped) that is not
\* blank/continuation; the blank pages in between are in no range.
C19_RangeAfterPreviousBoundary ==
    Segmented =>
        \A i \in 1..Len(sections.pages) :
            LET name == sections.pages[i].k
                rng == sections.pages[i].v
                tot == sections.totals
            IN  \E t \in 1..Len(tot) :
                    /\ tot[t].name = name
                    /\ tot[t].page = rng.end
                    /\ t > 1 =>
                          /\ rng.start = FirstNonBlank(tot[t - 1].page + 1, rng.end)
                          /\ \A p \in (tot[t - 1].page + 1)..(rng.start - 1) :
                                RangesHolding(p) = {}

\* A retained cardholder whose boundary follows a skipped cardholder's, with
\* a blank page between that boundary and the start of the range.
C19_Witness ==
    /\ Segmented
    /\ \E i \in 1..Len(sections.pages) :
          \E t \in 2..Len(sections.totals) :
              /\ sections.totals[t].name = sections.pages[i].k
              /\ sections.totals[t].page = sections.pages[i].v.end
              /\ sections.totals[t - 1].name \in skip_names
              /\ sections.pages[i].v.start > sections.totals[t - 1].page + 1
              /\ sections.pages[i].v.start < sections.pages[i].v.end

AbsentFields ==
    {f \in {"amount", "business_process_date", "transaction_date"} :
        \A n \in 1..Len(sheet.header) : ChainField(sheet.header[n]) # f}

ColumnValidationFailed == pc = "failed" /\ processing_error = "Missing required columns"

\* C16 as stated: with the header row found, column validation fails exactly
\* when the amount column or both date columns are missing.
C16_AmountAndOneDate ==
    (pc # "parse" /\ HeaderRowFound) =>
        (ColumnValidationFailed <=> ~RequiredColumnsFound)

\* C16 amended: with the header row found, column validation fails exactly
\* when the amount column or either of the two date columns is missing, and
\* the error names the missing fields.
C16_AmountAndBothDates ==
    (pc # "parse" /\ HeaderRowFound) =>
        /\ ColumnValidationFailed <=> AbsentFields # {}
        /\ ColumnValidationFailed => missing = AbsentFields

\* A header with the amount column and the transaction date only: the
\* validation fails and names the business process date.
C16_Witness ==
    /\ ColumnValidationFailed
    /\ HeaderRowFound
    /\ RequiredColumnsFound
    /\ missing = {"business_process_date"}

\* The paths the current invocation has written.
PathsOf(results) == {results[i].v : i \in 1..Len(results)}

PdfPathsOf(results) == {results[i].v.path : i \in 1..Len(results)}

\* C14: once an invocation has written its per-cardholder files, the output
\* directories hold no file but the ones it wrote: nothing left by an
\* earlier attempt is mixed with them.
C14_NoFileOfEarlierAttempt ==
    /\ Segmented => KeySet(pdf_files) = PdfPathsOf(pdf_results)
    /\ CsvGenerated => KeySet(csv_files) = PathsOf(csv_results)

\* What invocation s produces when it runs alone.
Alone(s) ==
    LET parsed == ParseStatement(inv[s].sheet)
        found == FindCardholderSections(inv[s].doc)
        split == SplitLoop(inv[s].doc, found.pages, Len(found.pages))
        csv == GenerateCsvFiles(parsed.tbc, Len(parsed.tbc))
    IN  IF parsed.error # ""
        THEN [pc |-> "failed", result |-> <<>>, pdfs |-> <<>>, csvs |-> <<>>]
        ELSE [pc |-> "done",
              result |-> TaskResult(CardholderStatements(split.results, parsed.tbc,
                                                         csv.file_paths,
                                                         Len(split.results))),
              pdfs |-> split.files, csvs |-> csv.files]

Ended(s) == inv[s].pc \in {"done", "failed"}

\* C13: of two invocations on different statement ids, interleaved in any
\* order, each ends as it ends alone: with the same result and the same
\* files in its output directories.
C13_SameAsAlone ==
    \A s \in DOMAIN inv :
        Ended(s) =>
            /\ inv[s].pc = Alone(s).pc
            /\ inv[s].result = Alone(s).result
            /\ DirFiles(shared.disk, OutputDir(s, "pdfs")) = Alone(s).pdfs
            /\ DirFiles(shared.disk, OutputDir(s, "csvs")) = Alone(s).csvs

\* The administrative pseudo-cardholder that is excluded from the output.
OnSkipList(name) == name = FIELD_2

\* C21: a name on the skip list is a key of neither the segmentation result
\* nor the split result, and the range of every retained cardholder that
\* ends after a skipped boundary page starts after that page.
C21_SkippedBoundaryAdvances ==
    Segmented =>
        /\ \A name \in KeySet(sections.pages) \cup KeySet(pdf_results) :
              ~OnSkipList(name)
        /\ \A t \in 1..Len(sections.totals) :
              OnSkipList(sections.totals[t].name) =>
                  \A i \in 1..Len(sections.pages) :
                      sections.pages[i].v.end > sections.totals[t].page
                          => sections.pages[i].v.start > sections.totals[t].page

\* A skipped boundary page between the boundary pages of two retained
\* cardholders: the later range starts right after it.
C21_Witness ==
    /\ Segmented
    /\ \E t \in 2..Len(sections.totals) :
          /\ OnSkipList(sections.totals[t].name)
          /\ sections.totals[t - 1].name \in KeySet(sections.pages)
          /\ \E i \in 1..Len(sections.pages) :
                /\ sections.pages[i].v.start = sections.totals[t].page + 1
                /\ sections.pages[i].k # sections.totals[t - 1].name

\* The text of the page holds a dollar amount, a date pair, a transaction
\* keyword or a total marker.
TransactionShaped(p) == p.indicator \/ p.markers # <<>>

\* C22: a page with transaction-shaped content is never classified
\* blank/continuation, whatever the length of its text, and is in the slice
\* of the range that contains it.
C22_ContentNeverBlank ==
    Segmented =>
        \A p \in 1..Len(doc) :
            TransactionShaped(doc[p]) =>
                /\ ~InSeq(p, sections.blank)
                /\ p \notin BlankPagesSet(doc)
                /\ \A owner \in KeySet(pdf_results) :
                      (/\ DictGet(pdf_results, owner).page_start <= p
                       /\ p <= DictGet(pdf_results, owner).page_end)
                          => InSeq(p, SliceOf(owner))

\* page.extract_text() gave None or the empty string.
NoTextExtracted(p) == p.len = 0

\* C23: a page whose text extraction yields no text is treated as a content
\* page: it is not classified blank and it is in the slice of the range
\* that contains it.
C23_NoTextIsContent ==
    Segmented =>
        \A p \in 1..Len(doc) :
            NoTextExtracted(doc[p]) =>
                /\ ~InSeq(p, sections.blank)
                /\ \A owner \in KeySet(pdf_results) :
                      (/\ DictGet(pdf_results, owner).page_start <= p
                       /\ p <= DictGet(pdf_results, owner).page_end)
                          => InSeq(p, SliceOf(owner))

\* The name cells of a data row that are populated.
SuppPopulated(row) == row.supp_first # <<>> /\ row.supp_last # <<>>

BasicPopulated(row) ==
    /\ InSeq("Basic Cardmember First Name", sheet.header)
    /\ InSeq("Basic Cardmember Last Name", sheet.header)
    /\ row.basic_first # <<>> /\ row.basic_last # <<>>

\* The transactions extracted from data row n.
ExtractedFrom(n) ==
    {<<k, j>> \in (1..Len(transactions_by_cardholder)) \X (1..MaxRows + 1) :
        /\ j <= Len(transactions_by_cardholder[k].v)
        /\ transactions_by_cardholder[k].v[j].row_number = sheet.product_row + n}

\* C24: a data row with an amount gets the name of its supplemental name
\* fields when they are populated and otherwise that of its primary name
\* fields; it is skipped for lack of a name only when both are missing.
C24_PrimaryNameFallback ==
    pc = "split" =>
        \A n \in 1..Len(sheet.rows) :
            LET row == sheet.rows[n]
                name == IF SuppPopulated(row)
                        THEN Upper(row.supp_first) \o Upper(row.supp_last)
                        ELSE Upper(row.basic_first) \o Upper(row.basic_last)
            IN  (row.amount.t # "none" /\ (SuppPopulated(row) \/ BasicPopulated(row)))
                    => \E e \in ExtractedFrom(n) :
                          transactions_by_cardholder[e[1]].k = name

\* The non-empty values of the description columns among the first c columns
\* of the header, in column order.
RECURSIVE FragmentsInColumnOrder(_, _)
FragmentsInColumnOrder(row, c) ==
    IF c = 0 THEN <<>>
    ELSE LET rest == FragmentsInColumnOrder(row, c - 1)
             label == sheet.header[c]
         IN  IF IsDescLabel(label) /\ row.desc[DescIndex(label)] # ""
             THEN Append(rest, row.desc[DescIndex(label)])
             ELSE rest

\* C25: the description of an extracted row is the concatenation, in column
\* order, of the non-empty values of the description columns of the header,
\* each column once, and the merchant is the first of these fragments.
C25_DescriptionOfRow ==
    pc = "split" =>
        \A n \in 1..Len(sheet.rows) :
            \A e \in ExtractedFrom(n) :
                LET t == transactions_by_cardholder[e[1]].v[e[2]]
                    fragments == FragmentsInColumnOrder(sheet.rows[n], Len(sheet.header))
                IN  /\ t.description = fragments
                    /\ t.merchant = IF fragments = <<>> THEN "" ELSE fragments[1]

\* The groups whose transactions are the list of tabular key k.
GroupsAttachedTo(k) ==
    {i \in 1..Len(groups) :
        groups[i].transactions = DictGet(transactions_by_cardholder, k)}

\* C26: each tabular transaction group is attached to at most one document
\* cardholder, whether paired by exact or by approximate match.
C26_GroupAttachedOnce ==
    pc = "done" =>
        \A k \in KeySet(transactions_by_cardholder) :
            Cardinality(GroupsAttachedTo(k)) <= 1

\* C27: every invocation eventually leaves the statement in status SPLIT, or
\* in status ERROR with processing_error set; no failure leaves it PROCESSING.
C27_EndsSplitOrError ==
    <>(status = "SPLIT" \/ (status = "ERROR" /\ processing_error # ""))

\* C28: every boundary marker of the document that names a cardholder not on
\* the skip list yields a range of that cardholder ending at the marker's
\* page, also when a name has two boundary pages or a page has two markers.
C28_EveryMarkerHasRange ==
    Segmented =>
        \A p \in 1..Len(doc) :
            \A j \in 1..Len(doc[p].markers) :
                ~OnSkipList(doc[p].markers[j]) =>
                    \E i \in 1..Len(sections.pages) :
                        /\ sections.pages[i].k = doc[p].markers[j]
                        /\ sections.pages[i].v.end = p

\* The files stored at the paths of statement u's row hold the bytes that
\* were uploaded with statement u.
OwnFilesStored(u) ==
    LET statement == StatementRow(shared.statements, u)
    IN  /\ DictGet(shared.upload_dir, statement.pdf_path) = UploadedBytes(u, "pdf")
        /\ DictGet(shared.upload_dir, statement.excel_path) = UploadedBytes(u, "excel")

\* C29: of two statements uploaded for the same month and year, the stored
\* files of one are never overwritten by the upload of the other, and a
\* processing invocation reads the files uploaded with its own statement.
C29_OwnFilesKeptAndRead ==
    \A u \in StatementIds :
        /\ inv[u].pc \in {"queued", "processed"} => OwnFilesStored(u)
        /\ inv[u].pc = "processed" =>
              /\ inv[u].read_pdf = UploadedBytes(u, "pdf")
              /\ inv[u].read_excel = UploadedBytes(u, "excel")

\* C30: within one invocation two distinct retained cardholder names never
\* have the same output file path, for the sliced document or for the
\* coded-import file.
C30_DistinctNamesDistinctPaths ==
    /\ \A a, b \in KeySet(pdf_results) :
          a # b => DictGet(pdf_results, a).path # DictGet(pdf_results, b).path
    /\ \A a, b \in KeySet(csv_results) :
          a # b => DictGet(csv_results, a) # DictGet(csv_results, b)

====
